---- MODULE Spec2Model ----
(***************************************************************************)
(* A model of the rules engine of the grid tactics game: the board with    *)
(* its tile grid and occupancy map, the unit store, the commands spawn,    *)
(* do_move, do_warp and do_damage of src/src/main.rs, and the Action       *)
(* Circle of src/src/action_circle.rs over the board of src/src/board.rs.  *)
(*                                                                         *)
(* Positions are pairs <<x, y>>.  An Option is a sequence of length at     *)
(* most one: None is <<>> and Some(v) is <<v>>.  A Vec indexed from 0 is a *)
(* function on 0..n-1 (tiles, spaces) or a sequence read at id + 1 (units).*)
(* state and movement are the PlayerState and the pending Movement of the  *)
(* Game of main.rs, and input the Input of input.rs.                       *)
(*                                                                         *)
(* main.rs applies a Damage record inside the command that builds it.  The *)
(* pending damage queue and its resolution pass are modelled from the      *)
(* design document (sections 3 and 4.6) around the do_damage of main.rs,   *)
(* in the specification SpecQueue.  main.rs has no acting team, no         *)
(* remaining actions and no next_turn either: acting (the acting team),    *)
(* remaining (the actions each unit has left) and next_turn                *)
(* are modelled from the design document (section 4.7) around the          *)
(* get_next_team of utilities.rs, in the specification SpecTurn.           *)
(***************************************************************************)
EXTENDS Integers, Sequences, FiniteSets, TLC

VARIABLES tiles, spaces, units, last, circle, queue, state, movement, acting, remaining,
          input

vars == <<tiles, spaces, units, last, circle, queue, state, movement, acting, remaining,
          input>>

(* ------------------------------ bounds -------------------------------- *)

\* Board::new(width, height): the board of the model is Width x Height.
Width == 5

Height == 4

\* The most units the model spawns.
MaxUnits == 2

\* The largest budget an Action Circle is asked for.
MaxRange == 4

\* The most Damage records pending at a time.
MaxQueue == 2

\* The largest width and height Board::new is tried with.
MaxSide == 4

\* The most events check_for_event delivers during one Input::update.
MaxEvents == 2

None == <<>>

Some(v) == <<v>>

Indices == 0 .. (Width * Height - 1)

\* Every cell of the board.
Cells == {<<x, y>> : x \in 0 .. (Width - 1), y \in 0 .. (Height - 1)}

\* Positions outside the board: left of it and below it.
OutCells == {<<0 - 1, 1>>, <<1, Height>>}

\* The positions commands and queries are tried with: the cells inside the
\* perimeter, one perimeter cell, and the positions outside the board.
Positions ==
    {c \in Cells : c[1] \in 1 .. (Width - 2) /\ c[2] \in 1 .. (Height - 2)}
        \cup {<<0, 1>>} \cup OutCells

Teams == {"Red", "Blue"}

\* The kinds the model spawns: a Ground unit that survives a hit, an Air
\* unit, and a unit with speed 0 and damage 0.
SpawnKinds == {"Tank", "Missile", "Flag"}

\* main.rs names the second Space Naval, entity.rs names it Water.
Space == {"Ground", "Water", "Air"}

Traverse == {"Ground", "Water", "Wall"}

(* ------------------------------ geometry ------------------------------ *)

Abs(n) == IF n < 0 THEN 0 - n ELSE n

\* Vec2::square_distance_to / Position::manhatten_distance
manhatten_distance(a, b) == Abs(a[1] - b[1]) + Abs(a[2] - b[2])

Adjacent(a, b) == manhatten_distance(a, b) = 1

\* radius with the bound of the distance test made strict.
radius_strict(origin, r) ==
    LET n == 2 * r + 1
        at(k) == <<origin[1] + ((k - 1) % n) - r, origin[2] + ((k - 1) \div n) - r>>
        square == [k \in 1 .. (n * n) |-> at(k)]
    IN  SelectSeq(square, LAMBDA p : p # origin /\ Abs(origin[1] - p[1]) + Abs(origin[2] - p[2]) < r)

\* Position::radius: the square -radius..=radius scanned row by row, the
\* centre skipped, the positions within Manhattan distance radius kept.
radius(origin, r) ==
    LET n == 2 * r + 1
        at(k) == <<origin[1] + ((k - 1) % n) - r, origin[2] + ((k - 1) \div n) - r>>
        square == [k \in 1 .. (n * n) |-> at(k)]
    IN  SelectSeq(square, LAMBDA p : p # origin /\ manhatten_distance(origin, p) <= r)

Range(s) == {s[i] : i \in DOMAIN s}

(* ------------------------------- board -------------------------------- *)

\* can_traverse with Air let over Wall.
can_traverse_air_wall(space, traverse) ==
    CASE space = "Ground" /\ traverse = "Ground" -> TRUE
      [] space = "Ground" /\ traverse = "Water"  -> FALSE
      [] space = "Water"  /\ traverse = "Ground" -> FALSE
      [] space = "Water"  /\ traverse = "Water"  -> TRUE
      [] space = "Air"                            -> TRUE
      [] OTHER                                   -> FALSE

\* Space::can_traverse (main.rs and entity.rs hold the same matrix).
can_traverse(space, traverse) ==
    CASE space = "Ground" /\ traverse = "Ground" -> TRUE
      [] space = "Ground" /\ traverse = "Water"  -> FALSE
      [] space = "Water"  /\ traverse = "Ground" -> FALSE
      [] space = "Water"  /\ traverse = "Water"  -> TRUE
      [] space = "Air"    /\ traverse = "Ground" -> TRUE
      [] space = "Air"    /\ traverse = "Water"  -> TRUE
      [] OTHER                                   -> FALSE

\* in_bounds with the right and the bottom edge let in.
in_bounds_inclusive(pos) ==
    /\ pos[1] >= 0 /\ pos[1] <= Width
    /\ pos[2] >= 0 /\ pos[2] <= Height

\* in_bounds without the test of the left edge.
in_bounds_no_left(pos) ==
    /\ pos[1] < Width
    /\ pos[2] >= 0 /\ pos[2] < Height

\* Board::in_bounds
in_bounds(pos) ==
    /\ pos[1] >= 0 /\ pos[1] < Width
    /\ pos[2] >= 0 /\ pos[2] < Height

\* Board::in_bounds (board.rs)
board_in_bounds(position) ==
    /\ position[1] >= 0 /\ position[1] < Width
    /\ position[2] >= 0 /\ position[2] < Height

\* Board::to_index (board.rs): Some(index) when the index lies in the Vec,
\* whatever the coordinates are.
board_to_index(position) ==
    LET index == position[1] + position[2] * Width
    IN  IF index >= 0 /\ index < Width * Height THEN Some(index) ELSE None

\* Board::to_index (main.rs): no bounds check.
to_index(pos) == pos[1] + pos[2] * Width

\* Board::get_tile: the traverse class of the tile, or None out of bounds.
get_tile(pos) == IF in_bounds(pos) THEN Some(tiles[to_index(pos)]) ELSE None

\* Board::new without the write of the right column.
Board_new_open_right(width, height) ==
    LET walls == {x : x \in 0 .. (width - 1)}
                    \cup {x + width * (height - 1) : x \in 0 .. (width - 1)}
                    \cup {width * y : y \in 0 .. (height - 1)}
    IN  [tiles  |-> [i \in 0 .. (width * height - 1) |->
                        IF i \in walls THEN "Wall" ELSE "Ground"],
         spaces |-> [i \in 0 .. (width * height - 1) |-> None]]

\* Board::new(width, height): a Vec of width * height Floor tiles, then Wall
\* written at x and x + width * (height - 1) for every x, and at width * y
\* and width - 1 + width * y for every y; a Vec of as many empty entries.
Board_new_sized(width, height) ==
    LET walls == {x : x \in 0 .. (width - 1)}
                    \cup {x + width * (height - 1) : x \in 0 .. (width - 1)}
                    \cup {width * y : y \in 0 .. (height - 1)}
                    \cup {width - 1 + width * y : y \in 0 .. (height - 1)}
    IN  [tiles  |-> [i \in 0 .. (width * height - 1) |->
                        IF i \in walls THEN "Wall" ELSE "Ground"],
         spaces |-> [i \in 0 .. (width * height - 1) |-> None]]

\* Board::new: Floor everywhere, Wall on the outer perimeter, no occupant.
Board_new ==
    [i \in Indices |->
        IF \/ i % Width = 0 \/ i % Width = Width - 1
           \/ i \div Width = 0 \/ i \div Width = Height - 1
        THEN "Wall" ELSE "Ground"]

\* The tile grids the model starts from: the grid of Board::new, and that
\* grid with the tile at (2, 1) overwritten by an Ocean tile, which a Ground
\* unit has to walk around and an Air unit may stand on.
Layouts ==
    { Board_new, [Board_new EXCEPT ![to_index(<<2, 1>>)] = "Water"] }

\* Board::tile_at (board.rs): the traverse class of the tile at the index.
tile_at(position) ==
    IF board_to_index(position) # None
    THEN Some(tiles[board_to_index(position)[1]]) ELSE None

\* Board::entity_at (board.rs): the occupancy entry at the index.
entity_at(position) ==
    IF board_to_index(position) # None
    THEN spaces[board_to_index(position)[1]] ELSE None

\* Team (entity.rs), in the order of its declaration.
entity_Team == <<"Red", "Blue", "Green", "Yellow", "White">>

\* The teams get_next_team has a match arm for.
NextTeamArms ==
    {"Red", "Blue", "Green", "Yellow", "Cyan", "Orange", "Magenta", "White"}

\* get_next_team (utilities.rs)
get_next_team(t) ==
    CASE t = "Red"     -> "Blue"
      [] t = "Blue"    -> "Green"
      [] t = "Green"   -> "Yellow"
      [] t = "Yellow"  -> "Cyan"
      [] t = "Cyan"    -> "Orange"
      [] t = "Orange"  -> "Magenta"
      [] t = "Magenta" -> "White"
      [] t = "White"   -> "Red"

(* ---------------------------- pathfinding ----------------------------- *)

\* Board::navigation_map (main.rs): the cells a unit of the Space may walk.
navigation_map(space) == {c \in Cells : can_traverse(space, tiles[to_index(c)])}

\* Board::navigation_map (board.rs): with no Space only Wall blocks.
board_navigation_map(space) ==
    {c \in Cells :
        IF space # None THEN can_traverse(space[1], tiles[to_index(c)])
        ELSE tiles[to_index(c)] # "Wall"}

\* The search of AStar::new_from_map(map, 0.0): steps of cost 1 to the four
\* neighbours (diagonal cost 0.0 forbids diagonals), into walkable cells only;
\* the cell the search starts from is not tested.  dist maps every cell
\* reached so far to its step count.
RECURSIVE Flood(_, _, _, _)
Flood(map, frontier, dist, k) ==
    IF frontier = {} THEN dist
    ELSE LET new == {c \in map : c \notin DOMAIN dist /\ \E f \in frontier : Adjacent(f, c)}
         IN  Flood(map, new, [c \in DOMAIN dist \cup new |-> IF c \in new THEN k + 1 ELSE dist[c]], k + 1)

astar_dist(map, origin) == Flood(map, {origin}, [c \in {origin} |-> 0], 0)

\* AStar::find: true at once when origin and destination coincide, false when
\* either lies outside the map, else whether the search reaches the destination.
astar_find(map, origin, dest) ==
    IF origin = dest THEN TRUE
    ELSE IF ~in_bounds(origin) \/ ~in_bounds(dest) THEN FALSE
    ELSE dest \in DOMAIN astar_dist(map, origin)

\* AStar::walk().count() after a successful find: the length of the path.
astar_count(map, origin, dest) ==
    IF origin = dest THEN 0 ELSE astar_dist(map, origin)[dest]

\* AStar::walk() after a successful find: the cells of a shortest path, the
\* origin left out and the destination last.  Which of several shortest paths
\* the search returns depends on its heap order: any of them.
RECURSIVE PathsTo(_, _, _)
PathsTo(dist, origin, dest) ==
    IF dest = origin THEN {<<>>}
    ELSE UNION {{Append(p, dest) : p \in PathsTo(dist, origin, n)} :
                n \in {c \in DOMAIN dist : Adjacent(c, dest) /\ dist[c] + 1 = dist[dest]}}

astar_walks(map, origin, dest) ==
    IF origin = dest THEN {<<>>} ELSE PathsTo(astar_dist(map, origin), origin, dest)

(* ------------------------------- units -------------------------------- *)

\* Unit::new (main.rs): the base stats of each kind.
Unit_new(id, position, kind, team) ==
    CASE kind = "Engineer" ->
           [kind |-> kind, space |-> "Ground", team |-> team, id |-> id, position |-> position,
            health |-> 1, health_max |-> 1, damage |-> 1, speed |-> 2, missile |-> FALSE]
      [] kind = "Infantry" ->
           [kind |-> kind, space |-> "Ground", team |-> team, id |-> id, position |-> position,
            health |-> 2, health_max |-> 2, damage |-> 1, speed |-> 2, missile |-> FALSE]
      [] kind = "Missile" ->
           [kind |-> kind, space |-> "Air", team |-> team, id |-> id, position |-> position,
            health |-> 3, health_max |-> 3, damage |-> 5, speed |-> 3, missile |-> TRUE]
      [] kind = "Humvee" ->
           [kind |-> kind, space |-> "Ground", team |-> team, id |-> id, position |-> position,
            health |-> 3, health_max |-> 3, damage |-> 1, speed |-> 3, missile |-> FALSE]
      [] kind = "Flag" ->
           [kind |-> kind, space |-> "Ground", team |-> team, id |-> id, position |-> position,
            health |-> 1, health_max |-> 1, damage |-> 0, speed |-> 0, missile |-> FALSE]
      [] kind = "Tank" ->
           [kind |-> kind, space |-> "Ground", team |-> team, id |-> id, position |-> position,
            health |-> 4, health_max |-> 4, damage |-> 2, speed |-> 2, missile |-> FALSE]

\* UnitBuilder::build (entity.rs): health_max and actions_max are set from
\* the health and the actions of the builder.
UnitBuilder_build(builder) ==
    [kind |-> builder.kind, team |-> builder.team, space |-> builder.space,
     health |-> builder.health, health_max |-> builder.health,
     damage |-> builder.damage, range |-> builder.range,
     actions |-> builder.actions, actions_max |-> builder.actions,
     position |-> builder.position]

\* Unit::new (entity.rs): the base stats of each kind, with range and actions.
entity_Unit_new(kind, team, position) ==
    LET with(space, health, damage, range, actions) ==
            [kind |-> kind, team |-> team, space |-> space, health |-> health,
             damage |-> damage, range |-> range, actions |-> actions,
             position |-> position]
    IN  UnitBuilder_build(
            CASE kind = "Engineer" -> with("Ground", 1, 1, 1, 2)
              [] kind = "Infantry" -> with("Ground", 2, 1, 1, 2)
              [] kind = "Humvee"   -> with("Ground", 3, 1, 1, 3)
              [] kind = "Tank"     -> with("Ground", 4, 2, 3, 2)
              [] kind = "Missile"  -> with("Air", 3, 10, 3, 3)
              [] kind = "Flag"     -> with("Ground", 1, 0, 0, 1))

\* board.units.get(id): Some(unit) for every index below the length of the
\* Vec, whatever the unit's health; nothing is ever removed from the Vec.
units_get(b, id) ==
    IF id >= 0 /\ id < Len(b.units) THEN Some(b.units[id + 1]) ELSE None

\* Board::unit_at / unit_at_mut, for a position whose index is in the map.
unit_at(b, position) ==
    LET index == to_index(position)
    IN  IF b.spaces[index] # None THEN units_get(b, b.spaces[index][1]) ELSE None

\* The dual lookup of the entity store: nothing when the two handles are
\* equal or one of them does not resolve, else the two units.
get_two(b, first, second) ==
    IF first = second THEN None
    ELSE IF units_get(b, first) = None \/ units_get(b, second) = None THEN None
    ELSE Some(<<units_get(b, first)[1], units_get(b, second)[1]>>)

\* The board value the commands work on.
board == [spaces |-> spaces, units |-> units]

(* ------------------------------ commands ------------------------------ *)

\* spawn without the test of the occupancy entry.
spawn_unchecked(b, position, kind, team) ==
    LET id    == Len(b.units)
        index == to_index(position)
        unit  == Unit_new(id, position, kind, team)
    IN  IF get_tile(position) = None
        THEN [b |-> b, res |-> "InvalidPosition"]
        ELSE IF ~can_traverse(unit.space, get_tile(position)[1])
        THEN [b |-> b, res |-> "IncompatibleTerrain"]
        ELSE [b   |-> [spaces |-> [b.spaces EXCEPT ![index] = Some(id)],
                       units  |-> Append(b.units, unit)],
              res |-> "Ok", id |-> id]

\* spawn with the handle 0 for every unit instead of the length of the Vec.
spawn_first_slot(b, position, kind, team) ==
    LET id    == 0
        index == to_index(position)
        unit  == Unit_new(id, position, kind, team)
    IN  IF get_tile(position) = None
        THEN [b |-> b, res |-> "InvalidPosition"]
        ELSE IF ~can_traverse(unit.space, get_tile(position)[1])
        THEN [b |-> b, res |-> "IncompatibleTerrain"]
        ELSE IF b.spaces[index] # None
        THEN [b |-> b, res |-> "SpaceOccupied"]
        ELSE [b   |-> [spaces |-> [b.spaces EXCEPT ![index] = Some(id)],
                       units  |-> Append(b.units, unit)],
              res |-> "Ok", id |-> id]

\* spawn without the write of the occupancy entry.
spawn_unmarked(b, position, kind, team) ==
    LET id    == Len(b.units)
        index == to_index(position)
        unit  == Unit_new(id, position, kind, team)
    IN  IF get_tile(position) = None
        THEN [b |-> b, res |-> "InvalidPosition"]
        ELSE IF ~can_traverse(unit.space, get_tile(position)[1])
        THEN [b |-> b, res |-> "IncompatibleTerrain"]
        ELSE IF b.spaces[index] # None
        THEN [b |-> b, res |-> "SpaceOccupied"]
        ELSE [b   |-> [spaces |-> b.spaces,
                       units  |-> Append(b.units, unit)],
              res |-> "Ok", id |-> id]

\* Board::spawn: res is the error, or Ok with the new handle in id.
spawn(b, position, kind, team) ==
    LET id    == Len(b.units)
        index == to_index(position)
        unit  == Unit_new(id, position, kind, team)
    IN  IF get_tile(position) = None
        THEN [b |-> b, res |-> "InvalidPosition"]
        ELSE IF ~can_traverse(unit.space, get_tile(position)[1])
        THEN [b |-> b, res |-> "IncompatibleTerrain"]
        ELSE IF b.spaces[index] # None
        THEN [b |-> b, res |-> "SpaceOccupied"]
        ELSE [b   |-> [spaces |-> [b.spaces EXCEPT ![index] = Some(id)],
                       units  |-> Append(b.units, unit)],
              res |-> "Ok", id |-> id]

\* do_damage without the test of the team of the unit it finds.
do_damage_friendly_fire(b, damage) ==
    IF ~in_bounds(damage.at)
    THEN [b |-> b, res |-> "InvalidPosition"]
    ELSE LET index == to_index(damage.at)
             hit   == unit_at(b, damage.at) # None
             id    == b.spaces[index][1]
             left  == IF b.units[id + 1].health - damage.amount > 0
                      THEN b.units[id + 1].health - damage.amount ELSE 0
         IN  IF ~hit THEN [b |-> b, res |-> "Ok(false)"]
             ELSE IF left = 0
             THEN [b   |-> [spaces |-> [b.spaces EXCEPT ![index] = None],
                            units  |-> [b.units EXCEPT ![id + 1].health = left]],
                   res |-> "Ok(true)"]
             ELSE [b   |-> [spaces |-> b.spaces,
                            units  |-> [b.units EXCEPT ![id + 1].health = left]],
                   res |-> "Ok(false)"]

\* do_damage with a cell that holds no unit reported as an error.
do_damage_rejects_empty(b, damage) ==
    IF ~in_bounds(damage.at)
    THEN [b |-> b, res |-> "InvalidPosition"]
    ELSE LET index == to_index(damage.at)
             hit   == unit_at(b, damage.at) # None /\ unit_at(b, damage.at)[1].team # damage.team
             id    == b.spaces[index][1]
             left  == IF b.units[id + 1].health - damage.amount > 0
                      THEN b.units[id + 1].health - damage.amount ELSE 0
         IN  IF unit_at(b, damage.at) = None THEN [b |-> b, res |-> "InvalidPosition"]
             ELSE IF ~hit THEN [b |-> b, res |-> "Ok(false)"]
             ELSE IF left = 0
             THEN [b   |-> [spaces |-> [b.spaces EXCEPT ![index] = None],
                            units  |-> [b.units EXCEPT ![id + 1].health = left]],
                   res |-> "Ok(true)"]
             ELSE [b   |-> [spaces |-> b.spaces,
                            units  |-> [b.units EXCEPT ![id + 1].health = left]],
                   res |-> "Ok(false)"]

\* do_damage without the floor of the health at 0.
do_damage_unfloored(b, damage) ==
    IF ~in_bounds(damage.at)
    THEN [b |-> b, res |-> "InvalidPosition"]
    ELSE LET index == to_index(damage.at)
             hit   == unit_at(b, damage.at) # None /\ unit_at(b, damage.at)[1].team # damage.team
             id    == b.spaces[index][1]
             left  == b.units[id + 1].health - damage.amount
         IN  IF ~hit THEN [b |-> b, res |-> "Ok(false)"]
             ELSE IF left = 0
             THEN [b   |-> [spaces |-> [b.spaces EXCEPT ![index] = None],
                            units  |-> [b.units EXCEPT ![id + 1].health = left]],
                   res |-> "Ok(true)"]
             ELSE [b   |-> [spaces |-> b.spaces,
                            units  |-> [b.units EXCEPT ![id + 1].health = left]],
                   res |-> "Ok(false)"]

\* do_damage: res is the error, or Ok(killed).
do_damage(b, damage) ==
    IF ~in_bounds(damage.at)
    THEN [b |-> b, res |-> "InvalidPosition"]
    ELSE LET index == to_index(damage.at)
             hit   == unit_at(b, damage.at) # None /\ unit_at(b, damage.at)[1].team # damage.team
             id    == b.spaces[index][1]
             left  == IF b.units[id + 1].health - damage.amount > 0
                      THEN b.units[id + 1].health - damage.amount ELSE 0
         IN  IF ~hit THEN [b |-> b, res |-> "Ok(false)"]
             ELSE IF left = 0
             THEN [b   |-> [spaces |-> [b.spaces EXCEPT ![index] = None],
                            units  |-> [b.units EXCEPT ![id + 1].health = left]],
                   res |-> "Ok(true)"]
             ELSE [b   |-> [spaces |-> b.spaces,
                            units  |-> [b.units EXCEPT ![id + 1].health = left]],
                   res |-> "Ok(false)"]

\* do_warp without the clearing of the entry the unit leaves.
do_warp_keeps_origin(b, warp) ==
    IF units_get(b, warp.unit) = None
    THEN [b |-> b, res |-> "InvalidSelection"]
    ELSE LET unit == units_get(b, warp.unit)[1]
             j    == to_index(warp.to)
         IN  IF get_tile(warp.to) = None
             THEN [b |-> b, res |-> "InvalidPosition"]
             ELSE IF ~can_traverse(unit.space, get_tile(warp.to)[1])
             THEN [b |-> b, res |-> "IncompatibleTerrain"]
             ELSE IF unit_at(b, warp.to) # None
             THEN [b |-> b, res |-> "SpaceOccupied"]
             ELSE [b   |-> [spaces |-> [b.spaces EXCEPT ![j] = Some(warp.unit)],
                            units  |-> [b.units EXCEPT ![warp.unit + 1].position = warp.to]],
                   res |-> "Ok"]

\* do_warp
do_warp(b, warp) ==
    IF units_get(b, warp.unit) = None
    THEN [b |-> b, res |-> "InvalidSelection"]
    ELSE LET unit == units_get(b, warp.unit)[1]
             i    == to_index(unit.position)
             j    == to_index(warp.to)
         IN  IF get_tile(warp.to) = None
             THEN [b |-> b, res |-> "InvalidPosition"]
             ELSE IF ~can_traverse(unit.space, get_tile(warp.to)[1])
             THEN [b |-> b, res |-> "IncompatibleTerrain"]
             ELSE IF unit_at(b, warp.to) # None
             THEN [b |-> b, res |-> "SpaceOccupied"]
             ELSE [b   |-> [spaces |-> [[b.spaces EXCEPT ![i] = None] EXCEPT ![j] = Some(warp.unit)],
                            units  |-> [b.units EXCEPT ![warp.unit + 1].position = warp.to]],
                   res |-> "Ok"]

\* The loop of do_move over astar.walk(): the first cell of the walk that
\* holds a unit becomes the destination, and the cell walked just before it
\* (the unit's own position when there is none) is before_destination.
walk_target(b, position, to, walk) ==
    LET blocked == {k \in DOMAIN walk : unit_at(b, walk[k]) # None}
        first   == CHOOSE k \in blocked : \A l \in blocked : k <= l
    IN  IF blocked # {}
        THEN [destination        |-> walk[first],
              before_destination |-> IF first = 1 THEN position ELSE walk[first - 1]]
        ELSE [destination        |-> to,
              before_destination |-> IF walk = <<>> THEN position ELSE walk[Len(walk)]]

\* do_move with an unresolved handle reported as an unreachable destination.
do_move_misreports(b, m, walk) ==
    IF units_get(b, m.unit) = None
    THEN [b |-> b, res |-> "DestinationNotReachable"]
    ELSE LET unit == units_get(b, m.unit)[1]
         IN  IF ~astar_find(navigation_map(unit.space), unit.position, m.to)
             THEN [b |-> b, res |-> "DestinationNotReachable"]
             ELSE LET t   == walk_target(b, unit.position, m.to, walk)
                      d   == do_damage(b, [team |-> unit.team, amount |-> unit.damage,
                                           at |-> t.destination])
                      had_target    == d.res # "InvalidPosition"
                      target_killed == d.res = "Ok(true)"
                  IN  IF ~had_target \/ target_killed
                      THEN do_warp(d.b, [unit |-> m.unit, to |-> t.destination])
                      ELSE do_warp(d.b, [unit |-> m.unit, to |-> t.before_destination])

\* do_move, along the path walk that astar.walk() yields when find succeeds.
do_move(b, m, walk) ==
    IF units_get(b, m.unit) = None
    THEN [b |-> b, res |-> "InvalidSelection"]
    ELSE LET unit == units_get(b, m.unit)[1]
         IN  IF ~astar_find(navigation_map(unit.space), unit.position, m.to)
             THEN [b |-> b, res |-> "DestinationNotReachable"]
             ELSE LET t   == walk_target(b, unit.position, m.to, walk)
                      d   == do_damage(b, [team |-> unit.team, amount |-> unit.damage,
                                           at |-> t.destination])
                      had_target    == d.res # "InvalidPosition"
                      target_killed == d.res = "Ok(true)"
                  IN  IF ~had_target \/ target_killed
                      THEN do_warp(d.b, [unit |-> m.unit, to |-> t.destination])
                      ELSE do_warp(d.b, [unit |-> m.unit, to |-> t.before_destination])

\* The paths astar.walk() may yield for the move m (a single empty walk when
\* the unit does not resolve or find fails: the walk is then never read).
move_walks(b, m) ==
    IF units_get(b, m.unit) = None THEN {<<>>}
    ELSE LET unit == units_get(b, m.unit)[1]
         IN  IF astar_find(navigation_map(unit.space), unit.position, m.to)
             THEN astar_walks(navigation_map(unit.space), unit.position, m.to)
             ELSE {<<>>}

(* --------------------------- action circle ---------------------------- *)

\* Board::in_range (board.rs): the search finds the target and the walk to
\* it counts at most range steps.
in_range(origin, target, range, space) ==
    LET map == board_navigation_map(space)
    IN  IF astar_find(map, origin, target)
        THEN astar_count(map, origin, target) <= range
        ELSE FALSE

\* ActionCircle::new: the HashMap from position to walk().count().
ActionCircle_new(origin, range, space) ==
    LET map  == board_navigation_map(space)
        keep == {p \in Range(radius(origin, range)) : in_bounds(p) /\ astar_find(map, origin, p)}
    IN  [p \in keep |-> astar_count(map, origin, p)]

\* ActionCircle::contains
contains(positions, position) == position \in DOMAIN positions

\* ActionCircle::cost_to
cost_to(positions, position) ==
    IF position \in DOMAIN positions THEN Some(positions[position]) ELSE None

(* ---------------------------- player state --------------------------- *)

\* PlayerState (main.rs): Selecting and Moving(id); GameOver is the terminal
\* state of the turn engine, and Panicked the process after a panic.
Selecting == <<"Selecting">>

Moving(id) == <<"Moving", id>>

GameOver == <<"GameOver">>

Panicked == <<"Panicked">>

\* Movement::new
Movement_new(abs_origin, range, space) ==
    [abs_origin |-> abs_origin, rel_origin |-> abs_origin, range |-> range,
     space |-> space, valid_tiles |-> <<>>, checked_tiles |-> <<abs_origin>>]

\* north, east, south, west, in the order movement_query tries them.
Neighbours(p) ==
    <<<<p[1], p[2] - 1>>, <<p[1] + 1, p[2]>>, <<p[1], p[2] + 1>>, <<p[1] - 1, p[2]>>>>

\* movement_query without its post-processing.
retain_all(m) == m

\* The post-processing at the end of every call of movement_query: only the
\* tiles the search reaches within range steps stay in valid_tiles.
retain_reachable(m) ==
    LET map == navigation_map(m.space)
        keep(pos) == /\ astar_find(map, m.abs_origin, pos)
                     /\ astar_count(map, m.abs_origin, pos) <= m.range
    IN  [m EXCEPT !.valid_tiles = SelectSeq(@, keep)]

\* movement_query from its k-th neighbour on: a neighbour with a tile, not
\* yet checked and within range of abs_origin is pushed on checked_tiles
\* and, when the space can traverse it, on valid_tiles, and the query recurs
\* from it before it goes on with the next neighbour.
RECURSIVE movement_query_from(_, _)
movement_query_from(m, k) ==
    IF k > 4 THEN retain_reachable(m)
    ELSE LET p == Neighbours(m.rel_origin)[k]
         IN  IF /\ get_tile(p) # None
                /\ p \notin Range(m.checked_tiles)
                /\ manhatten_distance(m.abs_origin, p) <= m.range
             THEN LET checked == [m EXCEPT !.checked_tiles = Append(@, p)]
                  IN  IF can_traverse(m.space, get_tile(p)[1])
                      THEN LET inner == movement_query_from(
                                           [checked EXCEPT !.valid_tiles = Append(@, p),
                                                           !.rel_origin = p], 1)
                           IN  movement_query_from(
                                   [inner EXCEPT !.rel_origin = m.rel_origin], k + 1)
                      ELSE movement_query_from(checked, k + 1)
             ELSE movement_query_from(m, k + 1)

\* movement_query(&board, &mut movement)
movement_query(m) == movement_query_from(m, 1)

(* ------------------------------- input -------------------------------- *)

\* The key codes and mouse buttons the model presses.
KeyCodes == {"A", "Escape"}

MouseButtons == {"Left", "Right"}

\* The events check_for_event returns, after KeyCode::from / MouseButton::from.
Events ==
    [kind : {"KEY_PRESS", "KEY_RELEASE"}, code : KeyCodes]
        \cup [kind : {"MOUSE_PRESS", "MOUSE_RELEASE"}, code : MouseButtons]
        \cup {[kind |-> "MOUSE_MOVE", code |-> "Unknown"]}

\* Input::new
Input_new ==
    [keys_last_frame  |-> [c \in KeyCodes |-> FALSE],
     keys_this_frame  |-> [c \in KeyCodes |-> FALSE],
     any_key_down     |-> None,
     mouse_last_frame |-> [b \in MouseButtons |-> FALSE],
     mouse_this_frame |-> [b \in MouseButtons |-> FALSE]]

\* The loop of Input::update over the pending events, in their order.
RECURSIVE drain(_, _)
drain(inp, events) ==
    IF events = <<>> THEN inp
    ELSE LET e == Head(events)
             next ==
                 CASE e.kind = "KEY_PRESS" ->
                        [inp EXCEPT !.keys_this_frame[e.code] = TRUE,
                                    !.any_key_down = Some(e.code)]
                   [] e.kind = "KEY_RELEASE" ->
                        [inp EXCEPT !.keys_this_frame[e.code] = FALSE]
                   [] e.kind = "MOUSE_PRESS" ->
                        [inp EXCEPT !.mouse_this_frame[e.code] = TRUE]
                   [] e.kind = "MOUSE_RELEASE" ->
                        [inp EXCEPT !.mouse_this_frame[e.code] = FALSE]
                   [] OTHER -> inp
         IN  drain(next, Tail(events))

\* Input::update: this frame becomes last frame, any_key_down is reset, the
\* events are drained, and any_key_down is cancelled when its key was
\* already pressed last frame.
Input_update(inp, events) ==
    LET shifted == [inp EXCEPT !.keys_last_frame  = inp.keys_this_frame,
                               !.mouse_last_frame = inp.mouse_this_frame,
                               !.any_key_down     = None]
        drained == drain(shifted, events)
    IN  IF drained.any_key_down # None /\ drained.keys_last_frame[drained.any_key_down[1]]
        THEN [drained EXCEPT !.any_key_down = None]
        ELSE drained

\* Input::key
Input_key(inp, code) ==
    LET last_frame == inp.keys_last_frame[code]
        this_frame == inp.keys_this_frame[code]
    IN  [down |-> ~last_frame /\ this_frame,
         up   |-> last_frame /\ ~this_frame,
         held |-> last_frame /\ this_frame]

\* Input::any_key_down
Input_any_key_down(inp) == inp.any_key_down

\* Input::button
Input_button(inp, button) ==
    LET last_frame == inp.mouse_last_frame[button]
        this_frame == inp.mouse_this_frame[button]
    IN  [down |-> ~last_frame /\ this_frame,
         up   |-> last_frame /\ ~this_frame,
         held |-> last_frame /\ this_frame]

\* The sequences of at most n events.
RECURSIVE EventSeqs(_)
EventSeqs(n) ==
    IF n = 0 THEN {<<>>}
    ELSE EventSeqs(n - 1)
            \cup {Append(q, e) : q \in {r \in EventSeqs(n - 1) : Len(r) = n - 1}, e \in Events}

(* ------------------------------ actions ------------------------------- *)

Init ==
    /\ tiles \in Layouts
    /\ spaces = [i \in Indices |-> None]
    /\ units = <<>>
    /\ last = [op |-> "new", res |-> "Ok"]
    /\ circle = None
    /\ queue = <<>>
    /\ state = Selecting
    /\ movement = None
    /\ acting = "Red"
    /\ remaining = <<>>
    /\ input = Input_new

\* The board after the command, and the command and its result in last.
Apply(r, op) ==
    /\ spaces' = r.b.spaces
    /\ units' = r.b.units
    /\ last' = [op |-> op, res |-> r.res]
    /\ UNCHANGED <<tiles, circle, queue, state, movement, acting, remaining,
                 input>>

\* game.board.spawn(position, kind, team)
Spawn ==
    /\ Len(units) < MaxUnits
    /\ \E position \in Positions, kind \in SpawnKinds, team \in Teams :
          Apply(spawn(board, position, kind, team), "spawn")

\* do_move(&mut board, Move { unit, to }), with the do_damage and the do_warp
\* it runs; unit ranges over the indices in use and one past them.
DoMove ==
    \E unit \in 0 .. MaxUnits, to \in Positions :
       \E walk \in move_walks(board, [unit |-> unit, to |-> to]) :
          Apply(do_move(board, [unit |-> unit, to |-> to], walk), "do_move")

Next == Spawn \/ DoMove

Spec == Init /\ [][Next]_vars

\* ActionCircle::new(origin, range, space, &board) on the board as it stands.
Query ==
    /\ \E origin \in Positions, range \in 0 .. MaxRange, space \in {None} \cup {Some(s) : s \in Space} :
          circle' = Some([origin |-> origin, range |-> range, space |-> space,
                          positions |-> ActionCircle_new(origin, range, space)])
    /\ UNCHANGED <<tiles, spaces, units, last, queue, state, movement, acting, remaining,
                 input>>

NextCircle == Query

SpecCircle == Init /\ [][NextCircle]_vars

(* --------------------------- damage queue ----------------------------- *)

\* The cells the queue specification spawns on, warps to and aims at, and a
\* position outside the board.
QueueCells == {<<1, 1>>, <<1, 2>>}

QueuePositions == QueueCells \cup {<<0 - 1, 1>>}

\* game.board.spawn(position, UnitKind::Tank, team)
SpawnTank ==
    /\ Len(units) < MaxUnits
    /\ \E position \in QueueCells, team \in Teams :
          Apply(spawn(board, position, "Tank", team), "spawn")

\* do_warp(&mut board, Warp { unit, to }): a unit leaves its cell for another.
Warp ==
    \E unit \in 0 .. MaxUnits :
       \E to \in QueuePositions :
          Apply(do_warp(board, [unit |-> unit, to |-> to]), "do_warp")

\* A Damage record (team, amount, at) is queued, the amount a Tank's damage.
\* aimed remembers the occupancy entry of the target cell when the record is
\* queued; the resolution never reads it.
Enqueue ==
    /\ Len(queue) < MaxQueue
    /\ \E team \in Teams, at \in QueuePositions :
          queue' = Append(queue,
                          [team |-> team, at |-> at,
                           amount |-> Unit_new(0, at, "Tank", team).damage,
                           aimed |-> IF in_bounds(at) THEN spaces[to_index(at)] ELSE None])
    /\ last' = [op |-> "enqueue", res |-> "Ok"]
    /\ UNCHANGED <<tiles, spaces, units, circle, state, movement, acting, remaining,
                 input>>

\* The resolution pass over the records in order: each is applied by
\* do_damage to the board as the records before it left it; a record that
\* hits nothing or lies outside the board is dropped.
RECURSIVE resolve(_, _)
resolve(b, records) ==
    IF records = <<>> THEN b
    ELSE resolve(do_damage(b, [team   |-> Head(records).team,
                               amount |-> Head(records).amount,
                               at     |-> Head(records).at]).b,
                 Tail(records))

\* The resolution pass: the board after it, and the queue cleared.  batch
\* keeps the records that were resolved.
Resolve ==
    /\ spaces' = resolve(board, queue).spaces
    /\ units' = resolve(board, queue).units
    /\ queue' = <<>>
    /\ last' = [op |-> "resolve", res |-> "Ok", batch |-> queue]
    /\ UNCHANGED <<tiles, circle, state, movement, acting, remaining,
                 input>>

NextQueue == SpawnTank \/ Warp \/ Enqueue \/ Resolve

SpecQueue == Init /\ [][NextQueue]_vars

(* ------------------------------- turns -------------------------------- *)

\* The teams the turn specification spawns units for.
TurnTeams == {"Red", "Blue", "White"}

\* Whether some unit of team t has health left.
HasSurvivor(b, t) ==
    \E i \in DOMAIN b.units : b.units[i].team = t /\ b.units[i].health > 0

\* The scan of next_turn: the first of at most n teams, from t on in the
\* order of get_next_team, that has a surviving unit, and the number of
\* teams examined.  The iteration is capped at the length of the list of
\* Team values.
RECURSIVE scan(_, _, _, _)
scan(b, t, n, examined) ==
    IF n = 0 THEN [found |-> None, examined |-> examined]
    ELSE IF HasSurvivor(b, t) THEN [found |-> Some(t), examined |-> examined + 1]
    ELSE scan(b, get_next_team(t), n - 1, examined + 1)

\* actions_max of a stored unit: that of its kind (entity.rs).
actions_max(unit) == entity_Unit_new(unit.kind, unit.team, unit.position).actions_max

\* next_turn: the next team with a surviving unit becomes the acting team and
\* its surviving units get their actions back; GameOver, with a failure
\* signal, when the scan over all teams finds none.
next_turn(b, current, acts) ==
    LET s == scan(b, get_next_team(current), Len(entity_Team), 0)
    IN  IF s.found = None
        THEN [team |-> current, actions |-> acts, state |-> GameOver,
              res |-> "GameOver", examined |-> s.examined]
        ELSE [team |-> s.found[1],
              actions |-> [i \in DOMAIN acts |->
                              IF b.units[i].team = s.found[1] /\ b.units[i].health > 0
                              THEN actions_max(b.units[i]) ELSE acts[i]],
              state |-> Selecting, res |-> "Ok", examined |-> s.examined]

\* Spawn of a Tank, which starts with actions = actions_max.
Enlist ==
    /\ state # GameOver
    /\ Len(units) < MaxUnits
    /\ \E position \in QueueCells, t \in TurnTeams :
          LET r == spawn(board, position, "Tank", t)
          IN  /\ spaces' = r.b.spaces
              /\ units' = r.b.units
              /\ last' = [op |-> "spawn", res |-> r.res]
              /\ remaining' = IF r.res = "Ok"
                               THEN Append(remaining,
                                           entity_Unit_new("Tank", t, position).actions)
                               ELSE remaining
    /\ UNCHANGED <<tiles, circle, queue, state, movement, acting,
                 input>>

\* A unit of the acting team spends one of its remaining actions.
Spend ==
    /\ state # GameOver
    /\ \E i \in DOMAIN units :
          /\ units[i].team = acting /\ units[i].health > 0 /\ remaining[i] > 0
          /\ remaining' = [remaining EXCEPT ![i] = @ - 1]
    /\ last' = [op |-> "spend", res |-> "Ok"]
    /\ UNCHANGED <<tiles, spaces, units, circle, queue, state, movement, acting,
                 input>>

\* do_damage(&mut board, Damage { team: t, amount, at }) with the damage of a
\* Missile, which kills a Tank.
Strike ==
    /\ state # GameOver
    /\ \E at \in QueueCells, t \in TurnTeams :
          LET r == do_damage(board, [team |-> t, at |-> at,
                                     amount |-> Unit_new(0, at, "Missile", t).damage])
          IN  /\ spaces' = r.b.spaces
              /\ units' = r.b.units
              /\ last' = [op |-> "do_damage", res |-> r.res]
    /\ UNCHANGED <<tiles, circle, queue, state, movement, acting, remaining,
                 input>>

\* next_turn()
NextTurn ==
    /\ state # GameOver
    /\ LET r == next_turn(board, acting, remaining)
       IN  /\ acting' = r.team
           /\ remaining' = r.actions
           /\ state' = r.state
           /\ last' = [op |-> "next_turn", res |-> r.res, examined |-> r.examined]
    /\ UNCHANGED <<tiles, spaces, units, circle, queue, movement,
                 input>>

NextOfTurns == Enlist \/ Spend \/ Strike \/ NextTurn

SpecTurn == Init /\ [][NextOfTurns]_vars

(* -------------------------- movement queries -------------------------- *)

\* movement_query on Movement::new(abs_origin, range, space), for an origin
\* on a cell of the board.
QueryMovement ==
    /\ \E abs_origin \in Positions \cap Cells, range \in 0 .. MaxRange, space \in Space :
          movement' = Some(movement_query(Movement_new(abs_origin, range, space)))
    /\ last' = [op |-> "movement_query", res |-> "Ok"]
    /\ UNCHANGED <<tiles, spaces, units, circle, queue, state, acting, remaining,
                 input>>

NextMovement == QueryMovement

SpecMovement == Init /\ [][NextMovement]_vars

(* ----------------------------- frame loop ----------------------------- *)

\* The spawn menu (right mouse button): board.spawn at game.world_pos, the
\* mouse position clamped into the board.
SpawnMenu ==
    /\ state # Panicked
    /\ Len(units) < MaxUnits
    /\ \E position \in Cells, kind \in SpawnKinds, t \in Teams :
          LET r == spawn(board, position, kind, t)
          IN  /\ spaces' = r.b.spaces
              /\ units' = r.b.units
              /\ last' = [op |-> "spawn", res |-> r.res]
    /\ UNCHANGED <<tiles, circle, queue, state, movement, acting, remaining,
                 input>>

\* Left mouse button while Selecting, at the unclamped world position:
\* unit_at unwraps spaces.get(index) and panics when the index is outside
\* the Vec; a unit found there, of whichever team, is selected with its
\* movement queried from the clicked position.
ClickSelecting(world_pos) ==
    /\ state = Selecting
    /\ IF to_index(world_pos) \notin Indices
       THEN /\ state' = Panicked
            /\ last' = [op |-> "select", res |-> "panic"]
            /\ UNCHANGED movement
       ELSE LET found == unit_at(board, world_pos)
            IN  IF found # None
                THEN /\ movement' = Some(movement_query(
                                        Movement_new(world_pos, found[1].speed, found[1].space)))
                     /\ state' = Moving(found[1].id)
                     /\ last' = [op |-> "select", res |-> "Some"]
                ELSE /\ last' = [op |-> "select", res |-> "None"]
                     /\ UNCHANGED <<state, movement>>
    /\ UNCHANGED <<tiles, spaces, units, circle, queue, acting, remaining,
                 input>>

\* The click while Moving(id) without the test of valid_tiles.
ClickMoving_any_tile(world_pos) ==
    /\ state # Selecting /\ state # Panicked /\ state # GameOver
    /\ movement # None
    /\ LET m == [unit |-> state[2], to |-> world_pos]
       IN  \E walk \in move_walks(board, m) :
              LET r == do_move(board, m, walk)
              IN  /\ spaces' = r.b.spaces
                  /\ units' = r.b.units
                  /\ last' = [op |-> "do_move", res |-> r.res]
    /\ movement' = None
    /\ state' = Selecting
    /\ UNCHANGED <<tiles, circle, queue, acting, remaining,
                 input>>

\* Left mouse button while Moving(id): a click on one of the valid tiles
\* runs do_move and, whatever its result, clears the movement and returns to
\* Selecting; any other click changes nothing.
ClickMoving(world_pos) ==
    /\ state # Selecting /\ state # Panicked /\ state # GameOver
    /\ movement # None
    /\ world_pos \in Range(movement[1].valid_tiles)
    /\ LET m == [unit |-> state[2], to |-> world_pos]
       IN  \E walk \in move_walks(board, m) :
              LET r == do_move(board, m, walk)
              IN  /\ spaces' = r.b.spaces
                  /\ units' = r.b.units
                  /\ last' = [op |-> "do_move", res |-> r.res]
    /\ movement' = None
    /\ state' = Selecting
    /\ UNCHANGED <<tiles, circle, queue, acting, remaining,
                 input>>

\* The Escape key with the movement left in place.
Escape_keeps_movement ==
    /\ state # Panicked
    /\ state' = Selecting
    /\ last' = [op |-> "escape", res |-> "Ok"]
    /\ UNCHANGED <<tiles, spaces, units, circle, queue, movement, acting, remaining,
                 input>>

\* The Escape key: the selection and the movement are dropped.
Escape ==
    /\ state # Panicked
    /\ movement' = None
    /\ state' = Selecting
    /\ last' = [op |-> "escape", res |-> "Ok"]
    /\ UNCHANGED <<tiles, spaces, units, circle, queue, acting, remaining,
                 input>>

Select == \E world_pos \in Positions : ClickSelecting(world_pos)

Move == \E world_pos \in Positions : ClickMoving(world_pos)

NextFrame == SpawnMenu \/ Select \/ Move \/ Escape

SpecFrame == Init /\ [][NextFrame]_vars

(* ---------------------------- input frames ---------------------------- *)

\* One frame: input.update(..) with the events that arrived since the last.
Update ==
    /\ \E events \in EventSeqs(MaxEvents) :
          /\ input' = Input_update(input, events)
          /\ last' = [op |-> "update", res |-> "Ok", events |-> events]
    /\ UNCHANGED <<tiles, spaces, units, circle, queue, state, movement, acting, remaining>>

NextInput == Update

SpecInput == Init /\ [][NextInput]_vars

(* ------------------------------ probes -------------------------------- *)

\* The positions the queries of the board are probed with: every cell, and
\* the positions one step outside the board on every side.
ProbePositions ==
    {<<x, y>> : x \in (0 - 1) .. Width, y \in (0 - 1) .. Height}

\* board.in_bounds(at), of main.rs and of board.rs
ProbeInBounds ==
    /\ \E at \in ProbePositions :
          last' = [op |-> "in_bounds", at |-> at,
                   res |-> in_bounds(at), board_res |-> board_in_bounds(at)]
    /\ UNCHANGED <<tiles, spaces, units, circle, queue, state, movement, acting, remaining,
                 input>>

\* board.tile_at(at) and board.entity_at(at)
ProbeTile ==
    /\ \E at \in ProbePositions :
          last' = [op |-> "tile_at", at |-> at,
                   res |-> tile_at(at), entity |-> entity_at(at)]
    /\ UNCHANGED <<tiles, spaces, units, circle, queue, state, movement, acting, remaining,
                 input>>

\* space.can_traverse(traverse)
ProbeTraverse ==
    /\ \E space \in Space, traverse \in Traverse :
          last' = [op |-> "can_traverse", space |-> space, traverse |-> traverse,
                   res |-> can_traverse(space, traverse)]
    /\ UNCHANGED <<tiles, spaces, units, circle, queue, state, movement, acting, remaining,
                 input>>

\* get_next_team(t)
ProbeNextTeam ==
    /\ \E t \in NextTeamArms :
          last' = [op |-> "get_next_team", team |-> t, res |-> get_next_team(t)]
    /\ UNCHANGED <<tiles, spaces, units, circle, queue, state, movement, acting, remaining,
                 input>>

\* at.radius(range)
ProbeRadius ==
    /\ \E at \in Positions, range \in 0 .. MaxRange :
          last' = [op |-> "radius", at |-> at, range |-> range, res |-> radius(at, range)]
    /\ UNCHANGED <<tiles, spaces, units, circle, queue, state, movement, acting, remaining,
                 input>>

\* Board::new(width, height)
ProbeBoardNew ==
    /\ \E width \in 1 .. MaxSide, height \in 1 .. MaxSide :
          last' = [op |-> "Board_new", width |-> width, height |-> height,
                   res |-> Board_new_sized(width, height)]
    /\ UNCHANGED <<tiles, spaces, units, circle, queue, state, movement, acting, remaining,
                 input>>

NextProbe ==
    \/ SpawnTank \/ ProbeInBounds \/ ProbeTile \/ ProbeTraverse \/ ProbeNextTeam
    \/ ProbeRadius \/ ProbeBoardNew

SpecProbe == Init /\ [][NextProbe]_vars

(* ------------------------------ claims -------------------------------- *)

\* The handles in use.
Ids == 0 .. (Len(units) - 1)

Live(id) == units[id + 1].health > 0

\* Every Move the commands are tried with, and every path the search may
\* return for it.
Moves == {[unit |-> unit, to |-> to] : unit \in 0 .. MaxUnits, to \in Positions}

\* C1: a cell's occupancy entry is populated if and only if some live unit
\* stands on that cell, the entry names that unit, and no two live units
\* share a cell.
C1_OccupancyMatchesLiveUnits ==
    /\ \A c \in Cells :
          LET e == spaces[to_index(c)]
          IN  /\ e # None <=> \E id \in Ids : Live(id) /\ units[id + 1].position = c
              /\ e # None => e[1] \in Ids /\ Live(e[1]) /\ units[e[1] + 1].position = c
    /\ \A i, j \in Ids :
          Live(i) /\ Live(j) /\ i # j => units[i + 1].position # units[j + 1].position

\* The cells reached from origin in at most k steps of cost 1 to a
\* 4-neighbour, every cell stepped on being one of map.
RECURSIVE Within(_, _, _)
Within(map, origin, k) ==
    IF k = 0 THEN {origin}
    ELSE LET w == Within(map, origin, k - 1)
         IN  w \cup {c \in map : \E n \in w : Adjacent(n, c)}

\* The least number of steps in which p is reached from origin (p is reached
\* within MaxRange steps where this is used).
MinSteps(map, origin, p) ==
    CHOOSE k \in 0 .. MaxRange :
        p \in Within(map, origin, k) /\ \A l \in 0 .. (k - 1) : p \notin Within(map, origin, l)

\* C2: the Action Circle contains no cell whose shortest-path cost under the
\* Space filter exceeds the budget.
C2_NoCellBeyondBudget ==
    circle # None =>
        \A p \in Cells :
            contains(circle[1].positions, p) =>
                p \in Within(board_navigation_map(circle[1].space), circle[1].origin,
                             circle[1].range)

\* C3: every cell other than the origin that is reached within the budget is
\* in the Action Circle with its least step count as cost_to, and cost_to is
\* nothing for every cell that is not contained.
C3_ReachableCellsWithExactCost ==
    circle # None =>
        LET q   == circle[1]
            map == board_navigation_map(q.space)
        IN  /\ \A p \in Cells \ {q.origin} :
                  p \in Within(map, q.origin, q.range) =>
                      /\ contains(q.positions, p)
                      /\ cost_to(q.positions, p) = Some(MinSteps(map, q.origin, p))
            /\ \A p \in Positions :
                  ~contains(q.positions, p) => cost_to(q.positions, p) = None

\* C3 witness: a circle holding a cell whose cost, within the budget, is more
\* than its Manhattan distance (the path goes around an obstacle).
C3_Witness ==
    /\ circle # None
    /\ \E p \in DOMAIN circle[1].positions :
          /\ circle[1].positions[p] > manhatten_distance(circle[1].origin, p)
          /\ circle[1].positions[p] <= circle[1].range

\* C4: a Spawn or Move that returns an error leaves the occupancy map and
\* every unit as they were.
C4_ErrorChangesNothing ==
    [][(last'.op \in {"spawn", "do_move"} /\ last'.res # "Ok")
          => (spaces' = spaces /\ units' = units)]_vars

\* Whether the cell of position has no occupancy entry (a position outside
\* the board holds nothing).
Free(position) == in_bounds(position) => spaces[to_index(position)] = None

\* C5: a Move to a free destination outside the unit's Action Circle (budget
\* the unit's speed, filter the unit's Space) fails with
\* DestinationNotReachable, also when a path longer than the budget exists.
C5_MoveBeyondBudgetFails ==
    \A m \in Moves :
        m.unit \in Ids =>
            LET unit == units[m.unit + 1]
                ac   == ActionCircle_new(unit.position, unit.speed, Some(unit.space))
            IN  (m.to # unit.position /\ Free(m.to) /\ ~contains(ac, m.to)) =>
                    \A walk \in move_walks(board, m) :
                        do_move(board, m, walk).res = "DestinationNotReachable"

\* C6: a Move whose destination cell holds a unit fails with SpaceOccupied
\* and changes neither the mover nor the occupant.
C6_MoveOntoOccupiedFails ==
    \A m \in Moves :
        (m.unit \in Ids /\ in_bounds(m.to) /\ spaces[to_index(m.to)] # None) =>
            \A walk \in move_walks(board, m) :
                LET r == do_move(board, m, walk)
                IN  r.res = "SpaceOccupied" /\ r.b = board

C8_MoveSpendsPathCost ==
    \A m \in Moves :
        m.unit \in Ids =>
            \A walk \in move_walks(board, m) :
                LET unit == units[m.unit + 1]
                    ac   == ActionCircle_new(unit.position, unit.speed, Some(unit.space))
                    r    == do_move(board, m, walk)
                IN  /\ unit.speed = 0 => r.res # "Ok"
                    /\ r.res = "Ok" =>
                          /\ cost_to(ac, m.to) # None
                          /\ r.b.units[m.unit + 1].speed = unit.speed - cost_to(ac, m.to)[1]

\* C9: a Spawn at a position outside the board fails with InvalidPosition,
\* adds no unit and changes no occupancy entry.
C9_SpawnOutOfBoundsFails ==
    \A position \in Positions, kind \in SpawnKinds, team \in Teams :
        ~(position \in Cells) =>
            LET r == spawn(board, position, kind, team)
            IN  r.res = "InvalidPosition" /\ r.b.units = units /\ r.b.spaces = spaces

\* C9 witness: a Spawn has just failed with InvalidPosition.
C9_Witness == last.op = "spawn" /\ last.res = "InvalidPosition"

\* C10 as stated: a Spawn on a cell that holds a unit fails with
\* SpaceOccupied, the occupant stays and no unit is added.
C10_SpawnOnOccupiedIsSpaceOccupied ==
    \A position \in Cells, kind \in SpawnKinds, team \in Teams :
        spaces[to_index(position)] # None =>
            LET r == spawn(board, position, kind, team)
            IN  r.res = "SpaceOccupied" /\ r.b.units = units /\ r.b.spaces = spaces

\* C10 as amended: a Spawn on a cell that holds a unit fails, with
\* SpaceOccupied when the Space of the new kind can traverse the tile of the
\* cell and with IncompatibleTerrain when it cannot; the occupant stays and
\* no unit is added.
C10_SpawnOnOccupiedFails ==
    \A position \in Cells, kind \in SpawnKinds, team \in Teams :
        spaces[to_index(position)] # None =>
            LET r     == spawn(board, position, kind, team)
                space == Unit_new(0, position, kind, team).space
            IN  /\ r.res = IF can_traverse(space, tiles[to_index(position)])
                           THEN "SpaceOccupied" ELSE "IncompatibleTerrain"
                /\ r.b.units = units /\ r.b.spaces = spaces

\* C10 witness: a Spawn has just failed with SpaceOccupied on a board that
\* holds a unit.
C10_Witness ==
    /\ last.op = "spawn" /\ last.res = "SpaceOccupied"
    /\ \E c \in Cells : spaces[to_index(c)] # None

\* C11 as stated: a Spawn at a position that is in bounds and holds no unit
\* succeeds.
C11_SpawnOnFreeCellSucceeds ==
    \A position \in Cells, kind \in SpawnKinds, team \in Teams :
        spaces[to_index(position)] = None =>
            spawn(board, position, kind, team).res = "Ok"

\* C11 as amended: a Spawn at a position that is in bounds and holds no unit
\* fails with IncompatibleTerrain, changing nothing, when the Space of the
\* kind cannot traverse the tile; otherwise it succeeds, appends exactly one
\* unit with the base stats of the kind (health = health_max; the unit of
\* entity.rs is built with actions = actions_max too) at the position, sets
\* the entry of the cell to the new handle and returns that handle.
C11_SpawnOnFreeTraversableCellSucceeds ==
    \A position \in Cells, kind \in SpawnKinds, team \in Teams :
        spaces[to_index(position)] = None =>
            LET r    == spawn(board, position, kind, team)
                base == Unit_new(Len(units), position, kind, team)
                e    == entity_Unit_new(kind, team, position)
            IN  IF can_traverse(base.space, tiles[to_index(position)])
                THEN /\ r.res = "Ok" /\ r.id = Len(units)
                     /\ r.b.units = Append(units, base)
                     /\ r.b.units[r.id + 1].health = r.b.units[r.id + 1].health_max
                     /\ r.b.units[r.id + 1].health > 0
                     /\ r.b.units[r.id + 1].position = position
                     /\ r.b.spaces = [spaces EXCEPT ![to_index(position)] = Some(r.id)]
                     /\ e.health = e.health_max /\ e.actions = e.actions_max
                     /\ e.space = base.space
                ELSE /\ r.res = "IncompatibleTerrain"
                     /\ r.b = board

\* C11 witness: a Spawn has just succeeded and the store holds its unit.
C11_Witness ==
    /\ last.op = "spawn" /\ last.res = "Ok"
    /\ units # <<>> /\ spaces[to_index(units[Len(units)].position)] = Some(Len(units) - 1)

\* C12: a Move with a handle that does not resolve to a unit fails with
\* InvalidSelection and leaves the occupancy map and every unit as they were.
C12_MoveWithInvalidHandleFails ==
    \A m \in Moves :
        units_get(board, m.unit) = None =>
            \A walk \in move_walks(board, m) :
                LET r == do_move(board, m, walk)
                IN  r.res = "InvalidSelection" /\ r.b = board

\* C12 witness: a Move has just failed with InvalidSelection on a board that
\* holds a unit.
C12_Witness ==
    /\ last.op = "do_move" /\ last.res = "InvalidSelection"
    /\ units # <<>>

\* C13: no command changes the health of any unit at the moment it is
\* issued: a Move leaves every unit's health as it was.
C13_CommandsLeaveHealthAlone ==
    [][last'.op = "do_move" =>
          (Len(units') = Len(units)
             /\ \A id \in Ids : units'[id + 1].health = units[id + 1].health)]_vars

\* The amounts a Damage record carries: the damage values of the kinds.
DamageAmounts ==
    {Unit_new(0, <<0, 0>>, kind, "Red").damage :
        kind \in {"Engineer", "Infantry", "Missile", "Humvee", "Flag", "Tank"}}
      \cup {entity_Unit_new("Missile", "Red", <<0, 0>>).damage}

Min(a, b) == IF a < b THEN a ELSE b

\* C14: the health of every unit is in 0 .. health_max in every reachable
\* state, and every application of damage to a cell subtracts
\* min(amount, current health) from the health of the unit it hits and
\* leaves the health of every other unit as it was.
C14_HealthStaysInRange ==
    /\ \A id \in Ids : units[id + 1].health >= 0 /\ units[id + 1].health <= units[id + 1].health_max
    /\ \A at \in Cells, team \in Teams, amount \in DamageAmounts :
          LET r == do_damage(board, [team |-> team, amount |-> amount, at |-> at])
          IN  /\ Len(r.b.units) = Len(units)
              /\ \A id \in Ids :
                    LET was == units[id + 1]
                        hit == spaces[to_index(at)] = Some(id) /\ was.team # team
                    IN  r.b.units[id + 1].health =
                            IF hit THEN was.health - Min(amount, was.health) ELSE was.health

\* C14 witness: a unit has reached health 0 under several hits (the only
\* enemy on the board deals less than the unit's full health at a time).
C14_Witness ==
    \E i, j \in Ids :
        /\ i # j /\ units[i + 1].health = 0
        /\ units[j + 1].team # units[i + 1].team
        /\ units[j + 1].damage > 0 /\ units[j + 1].damage < units[i + 1].health_max

\* C15: a unit whose health has reached 0 is gone from the occupancy map and
\* from the store: no entry names it and its handle no longer resolves.
C15_DeadUnitsAreRemoved ==
    /\ \A id \in 0 .. MaxUnits :
          units_get(board, id) # None => units_get(board, id)[1].health > 0
    /\ \A c \in Cells :
          spaces[to_index(c)] # None =>
              /\ units_get(board, spaces[to_index(c)][1]) # None
              /\ units_get(board, spaces[to_index(c)][1])[1].health > 0

\* Whether the cell a record aims at is on the board and has no occupancy
\* entry.
AimsAtEmptyCell(record) ==
    in_bounds(record.at) /\ spaces[to_index(record.at)] = None

\* C16: damage aimed at a cell of the board that holds no unit is no error
\* and changes nothing: do_damage returns Ok(false) and the board as it was,
\* a resolution pass whose records all aim at such cells leaves the occupancy
\* map and every unit as they were, and the queue is empty after every pass.
C16_DamageOnEmptyCellIsNoOp ==
    [][last'.op = "resolve" =>
          /\ queue' = <<>>
          /\ \A k \in DOMAIN queue :
                AimsAtEmptyCell(queue[k]) =>
                    do_damage(board, queue[k]) = [b |-> board, res |-> "Ok(false)"]
          /\ (\A k \in DOMAIN queue : AimsAtEmptyCell(queue[k])) =>
                (spaces' = spaces /\ units' = units)]_vars

\* C16 witness: a resolution pass has just resolved a record aimed at a cell
\* of the board on which no unit stands, on a board that holds a unit.
C16_Witness ==
    /\ last.op = "resolve" /\ units # <<>> /\ queue = <<>>
    /\ \E k \in DOMAIN last.batch :
          /\ in_bounds(last.batch[k].at)
          /\ \A id \in Ids : units[id + 1].position # last.batch[k].at

\* The damage the records aim at the cell at from teams other than team.
RECURSIVE Incoming(_, _, _)
Incoming(records, at, team) ==
    IF records = <<>> THEN 0
    ELSE (IF Head(records).at = at /\ Head(records).team # team
          THEN Head(records).amount ELSE 0) + Incoming(Tail(records), at, team)

Target(m, walk) == walk_target(board, units[m.unit + 1].position, m.to, walk).destination

\* Whether the move m along walk aims its damage at a unit of the mover's
\* own team (the mover included).
AimsAtFriend(m, walk) ==
    /\ m.unit \in Ids
    /\ astar_find(navigation_map(units[m.unit + 1].space), units[m.unit + 1].position, m.to)
    /\ unit_at(board, Target(m, walk)) # None
    /\ unit_at(board, Target(m, walk))[1].team = units[m.unit + 1].team

IsAttack(m) ==
    /\ m.unit \in Ids /\ Live(m.unit)
    /\ in_bounds(m.to) /\ spaces[to_index(m.to)] # None
    /\ spaces[to_index(m.to)][1] \in Ids
    /\ Live(spaces[to_index(m.to)][1])
    /\ units[spaces[to_index(m.to)][1] + 1].team # units[m.unit + 1].team

\* C19: an attack by a unit that is no missile on an enemy inside its Action
\* Circle (budget the range of its kind, filter its Space) applies exactly one
\* Damage record, of the attacker's damage, at the target's position; on an
\* enemy outside that Action Circle it fails and changes nothing.
C19_AttackWithinRangeOnly ==
    \A m \in Moves :
        (IsAttack(m) /\ ~units[m.unit + 1].missile) =>
            \A walk \in move_walks(board, m) :
                LET unit   == units[m.unit + 1]
                    target == spaces[to_index(m.to)][1]
                    range  == entity_Unit_new(unit.kind, unit.team, unit.position).range
                    ac     == ActionCircle_new(unit.position, range, Some(unit.space))
                    r      == do_move(board, m, walk)
                IN  IF contains(ac, m.to)
                    THEN r.b.units[target + 1].health =
                            units[target + 1].health - Min(unit.damage, units[target + 1].health)
                    ELSE r.res # "Ok" /\ r.b = board

\* C20: a successful attack by a Missile zeroes the Missile's own health, and
\* lowers the health of the target and of every other live enemy unit within
\* Manhattan distance 2 of the target.
C20_MissileSelfDestructsWithSplash ==
    \A m \in Moves :
        (IsAttack(m) /\ units[m.unit + 1].missile) =>
            \A walk \in move_walks(board, m) :
                LET unit == units[m.unit + 1]
                    r    == do_move(board, m, walk)
                IN  r.res = "Ok" =>
                        /\ r.b.units[m.unit + 1].health = 0
                        /\ \A v \in Ids :
                              (/\ v # m.unit /\ Live(v)
                               /\ units[v + 1].team # unit.team
                               /\ manhatten_distance(units[v + 1].position, m.to) <= 2)
                                  => r.b.units[v + 1].health < units[v + 1].health

\* The team reached from t by n applications of get_next_team.
RECURSIVE NextTeamTimes(_, _)
NextTeamTimes(t, n) == IF n = 0 THEN t ELSE NextTeamTimes(get_next_team(t), n - 1)

\* C23: every team get_next_team returns is a member of the Team
\* enumeration, and from every member the successive next teams visit every
\* member exactly once and then return to the member.
C23_TeamOrderIsOneCycle ==
    /\ last.op = "get_next_team" => last.res \in Range(entity_Team)
    /\ \A t \in Range(entity_Team) :
          /\ {NextTeamTimes(t, n) : n \in 1 .. Len(entity_Team)} = Range(entity_Team)
          /\ NextTeamTimes(t, Len(entity_Team)) = t

\* C28: in_bounds(p) is true exactly when 0 <= p.x < width and
\* 0 <= p.y < height, for the in_bounds of main.rs and of board.rs.
C28_InBoundsIsTheBoardArea ==
    last.op = "in_bounds" =>
        /\ last.res <=> last.at \in Cells
        /\ last.board_res <=> last.at \in Cells

\* C28 witness: in_bounds has just answered false for a position one step
\* right of the right edge, in a row of the board.
C28_Witness ==
    /\ last.op = "in_bounds" /\ ~last.res
    /\ last.at[1] = Width /\ last.at[2] \in 0 .. (Height - 1)

\* C29: tile_at(p) and entity_at(p) return nothing when p is outside the
\* board, and the tile and the occupancy entry of cell p itself when p is
\* inside.
C29_LookupOutsideIsNothing ==
    last.op = "tile_at" =>
        IF last.at \in Cells
        THEN /\ last.res = Some(tiles[last.at[1] + last.at[2] * Width])
             /\ last.entity = spaces[last.at[1] + last.at[2] * Width]
        ELSE last.res = None /\ last.entity = None

\* C30: can_traverse is defined on all nine pairs and true for exactly
\* (Ground, Ground), (Water, Water), (Air, Ground) and (Air, Water).
C30_CompatibilityMatrix ==
    /\ \A space \in Space, traverse \in Traverse :
          can_traverse(space, traverse) \in BOOLEAN
    /\ last.op = "can_traverse" =>
          (last.res <=> <<last.space, last.traverse>> \in
                           {<<"Ground", "Ground">>, <<"Water", "Water">>,
                            <<"Air", "Ground">>, <<"Air", "Water">>})

\* C30 witness: can_traverse has just answered false for Air over Wall.
C30_Witness ==
    /\ last.op = "can_traverse" /\ ~last.res
    /\ last.space = "Air" /\ last.traverse = "Wall"

\* What makes a stored unit the unit it is: the fields no command writes.
Identity(unit) ==
    [id |-> unit.id, kind |-> unit.kind, team |-> unit.team, space |-> unit.space,
     health_max |-> unit.health_max, damage |-> unit.damage, speed |-> unit.speed,
     missile |-> unit.missile]

\* C26: handles are stable: every stored unit has its index as id, and after
\* every command each handle in use resolves to the unit it resolved to
\* before (no unit is removed or shifted, and no index is issued twice).
C26_HandlesAreStable ==
    [][/\ \A i \in Ids : units[i + 1].id = i
       /\ Len(units') >= Len(units)
       /\ \A i \in 0 .. (Len(units') - 1) : units'[i + 1].id = i
       /\ \A i \in Ids : Identity(units'[i + 1]) = Identity(units[i + 1])]_vars

\* C26 witness: a Move has just run on a store that holds a killed unit and
\* a live one.
C26_Witness ==
    /\ last.op = "do_move" /\ Len(units) = MaxUnits
    /\ \E i, j \in Ids : ~Live(i) /\ Live(j)

Place(t) == CHOOSE k \in DOMAIN entity_Team : entity_Team[k] = t

\* How many steps after t, in the cyclic order of the declaration of Team,
\* the team u comes: 1 for the team right after t, the number of teams for
\* t itself.
StepsAfter(t, u) == ((Place(u) - Place(t) - 1) % Len(entity_Team)) + 1

\* The first team after t in the cyclic order that has a surviving unit.
FirstAfter(t) ==
    CHOOSE u \in Range(entity_Team) :
        /\ HasSurvivor(board, u)
        /\ \A v \in Range(entity_Team) :
              HasSurvivor(board, v) => StepsAfter(t, u) <= StepsAfter(t, v)

C24_FailureKeepsControl ==
    [][(state \notin {Selecting, Panicked, GameOver} /\ last'.op = "do_move") =>
          IF last'.res = "InvalidSelection" THEN state' = Selecting
          ELSE IF last'.res # "Ok" THEN state' = state
          ELSE TRUE]_vars

\* C25: the state leaves Selecting for Moving(u) only when the unit u belongs
\* to the acting team, and a click on an empty cell leaves it Selecting.
C25_OnlyOwnUnitIsSelected ==
    [][state = Selecting =>
          /\ \A id \in Ids : state' = Moving(id) => units[id + 1].team = acting
          /\ (last'.op = "select" /\ last'.res = "None") => state' = Selecting]_vars

\* C31: radius(origin, r) with r >= 0 holds, each once, exactly the positions
\* whose Manhattan distance to origin is between 1 and r: never the origin,
\* and nothing when r = 0.
C31_RadiusIsTheDiamond ==
    last.op = "radius" =>
        LET o == last.at
            r == last.range
            box == {<<x, y>> : x \in (o[1] - r - 1) .. (o[1] + r + 1),
                               y \in (o[2] - r - 1) .. (o[2] + r + 1)}
        IN  /\ \A i, j \in DOMAIN last.res : last.res[i] = last.res[j] => i = j
            /\ Range(last.res) =
                  {p \in box : Abs(p[1] - o[1]) + Abs(p[2] - o[2]) \in 1 .. r}
            /\ o \notin Range(last.res)
            /\ r = 0 => last.res = <<>>

\* C31 witness: radius has just answered for r = 2 with the twelve positions
\* of the diamond, the cell two steps to the right among them.
C31_Witness ==
    /\ last.op = "radius" /\ last.range = 2 /\ Len(last.res) = 12
    /\ <<last.at[1] + 2, last.at[2]>> \in Range(last.res)

\* C32: Board::new(width, height) with positive width and height has a Wall
\* tile at exactly the cells of the first and last column and row, a Ground
\* (Floor) tile at every other cell, and an empty occupancy entry per cell.
C32_NewBoardIsWalledAndEmpty ==
    last.op = "Board_new" =>
        LET w == last.width
            h == last.height
        IN  /\ DOMAIN last.res.tiles = 0 .. (w * h - 1)
            /\ DOMAIN last.res.spaces = 0 .. (w * h - 1)
            /\ \A x \in 0 .. (w - 1), y \in 0 .. (h - 1) :
                  /\ last.res.tiles[x + y * w] =
                        IF x = 0 \/ x = w - 1 \/ y = 0 \/ y = h - 1
                        THEN "Wall" ELSE "Ground"
                  /\ last.res.spaces[x + y * w] = None

\* C32 witness: Board::new has just built a 4 x 3 board whose cells (1, 1)
\* and (2, 1) are Ground inside a perimeter of Wall.
C32_Witness ==
    /\ last.op = "Board_new" /\ last.width = 4 /\ last.height = 3
    /\ last.res.tiles[5] = "Ground" /\ last.res.tiles[6] = "Ground"
    /\ last.res.tiles[7] = "Wall"

\* C37: for every pair of distinct cells origin and target of the board,
\* every range and every Space filter, in_range(origin, target, range, space)
\* is true exactly when the Action Circle built for origin, range and space
\* contains target.
C37_InRangeAgreesWithCircle ==
    (circle # None /\ circle[1].origin \in Cells) =>
        \A target \in Cells \ {circle[1].origin} :
            in_range(circle[1].origin, target, circle[1].range, circle[1].space)
                <=> contains(circle[1].positions, target)

\* C33: after movement_query, valid_tiles holds exactly the cells other than
\* the origin that are reached from the origin in at most range steps over
\* tiles the Space can traverse: no cell whose paths are all longer, every
\* cell with a path that short, never the origin.
C33_ValidTilesAreTheReachableCells ==
    (movement # None /\ last.op = "movement_query") =>
        LET m == movement[1]
        IN  /\ Range(m.valid_tiles) =
                  Within(navigation_map(m.space), m.abs_origin, m.range) \ {m.abs_origin}
            /\ Range(m.valid_tiles) \subseteq Cells
            /\ m.abs_origin \notin Range(m.valid_tiles)

\* C33 witness: a query for a Ground unit at (1, 1) with range 3 whose
\* valid_tiles holds (3, 2) but not (3, 1), a cell at Manhattan distance 2
\* that was checked and is only reached around the water in 4 steps.
C33_Witness ==
    /\ movement # None /\ last.op = "movement_query"
    /\ movement[1].abs_origin = <<1, 1>> /\ movement[1].range = 3
    /\ movement[1].space = "Ground"
    /\ <<3, 1>> \in Range(movement[1].checked_tiles)
    /\ <<3, 1>> \notin Range(movement[1].valid_tiles)
    /\ <<3, 2>> \in Range(movement[1].valid_tiles)

\* C34: a left click never faults, and a click in state Selecting selects a
\* unit only when the clicked position is a cell of the board and is that
\* unit's position.
C34_ClickNeverFaults ==
    /\ state # Panicked
    /\ (last.op = "select" /\ last.res = "Some") =>
          /\ movement[1].abs_origin \in Cells
          /\ units[state[2] + 1].position = movement[1].abs_origin

\* C35: in the frame loop every unit that changes position is the unit of
\* Moving(id), moved by the click on a highlighted tile, and ends on a cell
\* reached from the position it had since its selection in at most speed
\* steps over tiles its Space can traverse.
C35_RelocationWithinSpeed ==
    [][\A id \in Ids :
          units'[id + 1].position # units[id + 1].position =>
              /\ state = Moving(id) /\ last'.op = "do_move"
              /\ units'[id + 1].position \in
                    Within(navigation_map(units[id + 1].space),
                           units[id + 1].position, units[id + 1].speed)]_vars

\* C35 witness: a click has just moved a unit toward a highlighted tile on
\* which a unit of another team stands: that unit took the hit and survived,
\* and the mover stopped on the cell next to it.
C35_Witness ==
    /\ last.op = "do_move" /\ last.res = "Ok" /\ state = Selecting
    /\ \E i, j \in DOMAIN units :
          /\ units[i].team # units[j].team
          /\ units[j].health > 0 /\ units[j].health < units[j].health_max
          /\ units[i].health = units[i].health_max
          /\ Adjacent(units[i].position, units[j].position)

\* The steps of walk on which a live unit other than the mover stands.
Met(b, mover, walk) ==
    {k \in DOMAIN walk :
        \E j \in DOMAIN b.units :
            j # mover + 1 /\ b.units[j].health > 0 /\ b.units[j].position = walk[k]}

\* C36: a do_move that relocates the unit ends on the requested destination
\* when no live unit stands on the path, else on the cell walked just before
\* the first occupied cell, or on that cell only if its occupant was an enemy
\* killed by this move; the mover never ends on the cell of another live
\* unit, and only a unit on the first occupied cell can lose health.
C36_MoveStopsAtFirstUnit ==
    \A m \in Moves :
        m.unit \in Ids =>
            \A walk \in move_walks(board, m) :
                LET unit  == units[m.unit + 1]
                    r     == do_move(board, m, walk)
                    after == r.b.units[m.unit + 1].position
                    met   == Met(board, m.unit, walk)
                    first == CHOOSE k \in met : \A l \in met : k <= l
                IN  /\ after # unit.position =>
                          /\ IF met = {} THEN after = m.to
                             ELSE \/ after = IF first = 1 THEN unit.position
                                              ELSE walk[first - 1]
                                  \/ /\ after = walk[first]
                                     /\ \A j \in DOMAIN units :
                                           (j # m.unit + 1 /\ units[j].health > 0
                                                /\ units[j].position = walk[first]) =>
                                               /\ units[j].team # unit.team
                                               /\ r.b.units[j].health = 0
                          /\ \A j \in DOMAIN units :
                                (j # m.unit + 1 /\ r.b.units[j].health > 0) =>
                                    r.b.units[j].position # after
                    /\ \A j \in DOMAIN units :
                          r.b.units[j].health # units[j].health =>
                              met # {} /\ units[j].position = walk[first]

RECURSIVE Track(_, _, _, _)
Track(events, press, code, t) ==
    IF events = <<>> THEN t
    ELSE LET e == Head(events)
         IN  IF e.code # code \/ e.kind \notin {press, "KEY_RELEASE", "MOUSE_RELEASE"}
             THEN Track(Tail(events), press, code, t)
             ELSE IF e.kind = press
             THEN Track(Tail(events), press, code,
                        [pressed |-> TRUE, fresh |-> t.fresh \/ ~t.pressed,
                         released |-> t.released])
             ELSE Track(Tail(events), press, code,
                        [pressed |-> FALSE, fresh |-> t.fresh,
                         released |-> t.released \/ t.pressed])

Tracked(events, press, code, p) ==
    Track(events, press, code, [pressed |-> p, fresh |-> FALSE, released |-> FALSE])

\* How many of down, up and held a ButtonState reports.
Reported(b) ==
    (IF b.down THEN 1 ELSE 0) + (IF b.up THEN 1 ELSE 0) + (IF b.held THEN 1 ELSE 0)

\* The keys and buttons with, for each, its press event, whether it was
\* pressed before the frame, and the ButtonState reported after the update.
Buttons(before, after, events) ==
    {[was |-> before.keys_this_frame[c], reported |-> Input_key(after, c),
      t |-> Tracked(events, "KEY_PRESS", c, before.keys_this_frame[c])] : c \in KeyCodes}
      \cup
    {[was |-> before.mouse_this_frame[b], reported |-> Input_button(after, b),
      t |-> Tracked(events, "MOUSE_PRESS", b, before.mouse_this_frame[b])] : b \in MouseButtons}

\* C39: in every frame each key and button reports at most one of
\* down, up and held; down exactly when it was pressed during the frame, up
\* exactly when it was released during the frame, held exactly when it was
\* pressed before and stayed pressed; any_key_down never names a key that
\* was pressed in the previous frame.
C39_ButtonStatesFollowEvents ==
    [][last'.op = "update" =>
          /\ \A b \in Buttons(input, input', last'.events) :
                /\ Reported(b.reported) <= 1
                /\ b.reported.down <=> b.t.fresh
                /\ b.reported.up <=> b.t.released
                /\ b.reported.held <=> (b.was /\ ~b.t.released)
          /\ Input_any_key_down(input') # None =>
                ~input.keys_this_frame[Input_any_key_down(input')[1]]]_vars

====
